---- MODULE Spec2Model ----
(***************************************************************************)
(* Model of hammer.py: a shared FIFO queue of bin files, fed by a one-shot *)
(* scan (binfinder) and a close-write watcher (binwatcher), drained by one *)
(* worker coroutine (hammer) per rsync destination.                        *)
(*                                                                         *)
(* The program runs on one asyncio event loop, so each action is the code  *)
(* a coroutine executes between two suspension points.  bin_queue is       *)
(* unbounded, so "await bin_queue.put(..)" never suspends; the suspension  *)
(* points of a worker are bin_queue.get(), asyncio.sleep(), the two        *)
(* Lock.acquire() calls when the lock is taken, and the two subprocesses.  *)
(* The file system, the mounts and rsync's exit statuses are environment.  *)
(***************************************************************************)
EXTENDS Integers, Sequences, FiniteSets, TLC

(***************************************************************************)
(* Bounds of the model.                                                    *)
(***************************************************************************)
\* items that may be in the system (queued or held by a worker) at once
MaxItems == 3
\* largest number of free units a local destination reports
MaxFree == 2

(***************************************************************************)
(* Configuration (hammer.py lines 22-56), instantiated.                    *)
(***************************************************************************)
\* minimum size of a file the scan accepts, in the model's size unit
FILE_SIZE == 2

RootA == <<"a">>
RootB == <<"b">>
RootC == <<"c">>
SOURCES == <<RootA, RootB, RootC>>

\* Path(path).exists() of a source root (line 86): "c" is configured but missing
RootExists(root) == root # RootC

\* one local path and one remote rsync module, as in the comment on line 28
DESTS == {"/mnt/HDD1", "192.168.1.10::hdd1"}
\* Path(dest).exists() can only be true of a local path
LocalDests == {"/mnt/HDD1"}

(***************************************************************************)
(* Paths.  A file path is a record of its directory (the sequence of the   *)
(* directory's components) and its file name; a file name is a record of   *)
(* stem and suffix, so that endswith(".bin") is computed.                  *)
(***************************************************************************)
Name(stem, ext) == [stem |-> stem, ext |-> ext]

\* str.endswith(".bin") on a file name (line 98) and the *.bin glob (line 77)
EndsWithBin(name) == name.ext = ".bin"

\* Path(alias) / name (line 99)
Join(dir, name) == [dir |-> dir, name |-> name]

\* bin.parent (lines 134 and 159)
Parent(path) == path.dir

\* true when path lies in dir or below it: what "**" of line 77 descends into
IsUnder(path, dir) ==
    /\ Len(path.dir) >= Len(dir)
    /\ SubSeq(path.dir, 1, Len(dir)) = dir

\* the files the environment may hold under the source roots
FileX == Join(RootA, Name("x", ".bin"))
FileY == Join(RootA, Name("y", ".bin"))
FileZ == Join(Append(RootA, "sub"), Name("z", ".bin"))
FileW == Join(RootB, Name("w", ".bin"))
FileN == Join(RootA, Name("n", ".txt"))
Files == {FileX, FileY, FileZ, FileW, FileN}

\* os.path.getsize(bin) (line 78) and bin.stat().st_size (line 120)
Size(path) == IF path \in {FileY, FileZ} THEN 1 ELSE 2

Bins == {f \in Files : EndsWithBin(f.name)}
Parents == {Parent(f) : f \in Bins}

NoBin == [dir |-> <<>>, name |-> Name("", "")]
NoHolder == "none"

\* proc.returncode of rsync: 0, socket I/O, file I/O (two codes), any other
ReturnCodes == {0, 10, 11, 23, 1}
\* no real rsync has ended since the latest dequeue
NoCode == -1

\* what the mount/space queries report of a local destination: the path is
\* missing, is a plain directory, or is a mount point with some free units
Health ==
    {[kind |-> k, free |-> 0] : k \in {"absent", "unmounted"}}
        \cup {[kind |-> "mounted", free |-> n] : n \in 0 .. MaxFree}

VARIABLES
    ONE_AT_A_TIME,  \* line 46, fixed for a run
    ONE_PER_DRIVE,  \* line 50, fixed for a run
    bin_queue,      \* the asyncio.Queue of main (line 193)
    finder,         \* where the binfinder/binwatcher coroutine is
    listing,        \* the files under the source roots as the scan finds them
    pc,             \* where each hammer coroutine is
    bin,            \* the item each hammer holds (its local "bin")
    LOCK,           \* holder of the global lock (line 71)
    SRC_LOCKS,      \* holder of each source directory's lock (line 72)
    health,         \* state of each local destination (environment)
    outcome,        \* how each hammer's latest dequeue was handled
    returncode,     \* proc.returncode of each hammer's latest real rsync
    nput,           \* re-enqueues each hammer made for its latest dequeue
    moved           \* paths some real rsync has moved with exit status 0

vars == <<ONE_AT_A_TIME, ONE_PER_DRIVE, bin_queue, finder, listing, pc, bin, LOCK,
          SRC_LOCKS, health, outcome, returncode, nput, moved>>

config == <<ONE_AT_A_TIME, ONE_PER_DRIVE>>

\* what only the end of a real rsync changes
kept == <<returncode, moved>>

\* number of items dequeued and not yet put back or consumed
Held == Cardinality({w \in DESTS : bin[w] # NoBin})

Init ==
    /\ ONE_AT_A_TIME \in BOOLEAN
    /\ ONE_PER_DRIVE \in BOOLEAN
    /\ bin_queue = <<>>
    /\ finder = "scan"
    /\ listing \in SUBSET Files
    /\ pc = [w \in DESTS |-> "get"]
    /\ bin = [w \in DESTS |-> NoBin]
    /\ LOCK = NoHolder
    /\ SRC_LOCKS = [d \in Parents |-> NoHolder]
    /\ health \in [LocalDests -> Health]
    /\ outcome = [w \in DESTS |-> "none"]
    /\ returncode = [w \in DESTS |-> NoCode]
    /\ nput = [w \in DESTS |-> 0]
    /\ moved = {}

(***************************************************************************)
(* The queue and the destination queries.                                  *)
(***************************************************************************)
\* bin_queue.put(item): the queue is FIFO and unbounded
Put(queue, item) == Append(queue, item)

\* dest_path.exists() (line 112)
Exists(dest) == dest \in LocalDests /\ health[dest].kind # "absent"

\* a variant: the mount check is left out
IsMountUnchecked(dest) == dest \in LocalDests

\* dest_path.is_mount() (line 114)
IsMount(dest) == dest \in LocalDests /\ health[dest].kind = "mounted"

\* a variant: the comparison is the wrong way round
DestFullReversed(dest, item) == health[dest].free > Size(item)

\* dest_free < bin_size (lines 120-122)
DestFull(dest, item) == health[dest].free < Size(item)

\* a variant: only status 11 is taken for a file I/O error
ClassifyOnly11(rc) ==
    IF rc = 0 THEN "success"
    ELSE IF rc = 10 THEN "socket"
    ELSE IF rc = 11 THEN "fileio"
    ELSE "other"

\* the branch taken on proc.returncode (lines 163-176)
Classify(rc) ==
    IF rc = 0 THEN "success"
    ELSE IF rc = 10 THEN "socket"
    ELSE IF rc \in {11, 23} THEN "fileio"
    ELSE "other"

(***************************************************************************)
(* binfinder and binwatcher.                                               *)
(***************************************************************************)
\* Path(path).glob("**/*.bin") over the files present (line 77)
Glob(root, present) ==
    {f \in present : IsUnder(f, root) /\ EndsWithBin(f.name)}

\* the orders in which a traversal may yield the files of a set
Orders(S) ==
    {o \in [1 .. Cardinality(S) -> S] : \A f \in S : \E i \in DOMAIN o : o[i] = f}

\* the size test with the bound excluded
BigEnoughStrict(f) == Size(f) > FILE_SIZE

\* os.path.getsize(bin) >= FILE_SIZE (line 78)
BigEnough(f) == Size(f) >= FILE_SIZE

\* the items one pass of lines 76-79 may put, root after root from SOURCES[i]
RECURSIVE ScanRoots(_, _)
ScanRoots(i, present) ==
    IF i > Len(SOURCES) THEN {<<>>}
    ELSE {SelectSeq(o, BigEnough) \o rest :
             o \in Orders(Glob(SOURCES[i], present)),
             rest \in ScanRoots(i + 1, present)}

\* the roots binwatcher watches (lines 85-94)
Watched == {SOURCES[i] : i \in {j \in DOMAIN SOURCES : RootExists(SOURCES[j])}}

\* binfinder's loop (lines 76-79) up to binwatcher's await of watcher.setup:
\* no put suspends, so the whole scan is one step of the event loop
Scan ==
    /\ finder = "scan"
    /\ \E found \in ScanRoots(1, listing) :
          /\ Len(found) <= MaxItems
          /\ bin_queue' = bin_queue \o found
    /\ finder' = "setup"
    /\ UNCHANGED <<config, listing, pc, bin, LOCK, SRC_LOCKS, health, outcome,
                   nput, kept>>

\* watcher.setup(loop) returns (line 95); the roots are never listed again,
\* so what they held at the scan is followed no further
WatchSetup ==
    /\ finder = "setup"
    /\ finder' = "watch"
    /\ listing' = {}
    /\ UNCHANGED <<config, bin_queue, pc, bin, LOCK, SRC_LOCKS, health, outcome,
                   nput, kept>>

\* a variant: the watcher delivers events while the scan has yet to run
WatchEventAnytime(f) ==
    /\ f.dir \in Watched
    /\ Len(bin_queue) + Held < MaxItems
    /\ bin_queue' = IF EndsWithBin(f.name)
                    THEN Put(bin_queue, Join(f.dir, f.name))
                    ELSE bin_queue
    /\ UNCHANGED <<config, listing, finder, pc, bin, LOCK, SRC_LOCKS, health,
                   outcome, nput, kept>>

\* one close-write event of a watched root (lines 97-100)
WatchEvent(f) ==
    /\ finder = "watch"
    /\ f.dir \in Watched
    /\ Len(bin_queue) + Held < MaxItems
    /\ bin_queue' = IF EndsWithBin(f.name)
                    THEN Put(bin_queue, Join(f.dir, f.name))
                    ELSE bin_queue
    /\ UNCHANGED <<config, listing, finder, pc, bin, LOCK, SRC_LOCKS, health,
                   outcome, nput, kept>>

(***************************************************************************)
(* hammer.                                                                 *)
(***************************************************************************)
\* a variant: the wrong flag is tested
UseGlobalLockSwapped == ONE_PER_DRIVE

\* line 129: whether the worker takes the global lock
UseGlobalLock == ONE_AT_A_TIME

\* a variant: the wrong flag is tested
UseSourceLockSwapped == ONE_AT_A_TIME

\* line 133: whether the worker takes the lock of bin.parent
UseSourceLock == ONE_PER_DRIVE

\* LOCK after the finally clause (lines 160-161)
ReleasedLock == IF ONE_AT_A_TIME THEN NoHolder ELSE LOCK

\* SRC_LOCKS with the release of the source lock left out
ReleasedSrcKept(item) == SRC_LOCKS

\* SRC_LOCKS after the finally clause (lines 158-159)
ReleasedSrc(item) ==
    IF ONE_PER_DRIVE THEN [SRC_LOCKS EXCEPT ![Parent(item)] = NoHolder]
    ELSE SRC_LOCKS

\* lines 133-134 and the start of the probe (line 141)
AcquireSrc(w, item) ==
    IF UseSourceLock /\ SRC_LOCKS[Parent(item)] # NoHolder
    THEN /\ pc' = [pc EXCEPT ![w] = "wait_src"]
         /\ UNCHANGED SRC_LOCKS
    ELSE /\ SRC_LOCKS' = IF UseSourceLock
                         THEN [SRC_LOCKS EXCEPT ![Parent(item)] = w]
                         ELSE SRC_LOCKS
         /\ pc' = [pc EXCEPT ![w] = "probe"]

\* a variant: the source lock is taken first and the global lock second
AcquireLockSrcFirst(w, item) ==
    IF UseSourceLock /\ SRC_LOCKS[Parent(item)] # NoHolder
    THEN /\ pc' = [pc EXCEPT ![w] = "wait_src"]
         /\ UNCHANGED <<LOCK, SRC_LOCKS>>
    ELSE /\ SRC_LOCKS' = IF UseSourceLock
                         THEN [SRC_LOCKS EXCEPT ![Parent(item)] = w]
                         ELSE SRC_LOCKS
         /\ IF UseGlobalLock /\ LOCK # NoHolder
            THEN /\ pc' = [pc EXCEPT ![w] = "wait_lock"]
                 /\ UNCHANGED LOCK
            ELSE /\ LOCK' = IF UseGlobalLock THEN w ELSE LOCK
                 /\ pc' = [pc EXCEPT ![w] = "probe"]

\* lines 129-130, then on to the source lock
AcquireLock(w, item) ==
    IF UseGlobalLock /\ LOCK # NoHolder
    THEN /\ pc' = [pc EXCEPT ![w] = "wait_lock"]
         /\ UNCHANGED <<LOCK, SRC_LOCKS>>
    ELSE /\ LOCK' = IF UseGlobalLock THEN w ELSE LOCK
         /\ AcquireSrc(w, item)

\* bin_queue.get() returns (line 107); the code runs on to its next suspension
Get(w) ==
    /\ pc[w] = "get"
    /\ bin_queue # <<>>
    /\ LET item == Head(bin_queue)
           rest == Tail(bin_queue)
       IN  \/ \* lines 114-118: not a mount point
              /\ Exists(w) /\ ~IsMount(w)
              /\ bin_queue' = Put(rest, item)
              /\ pc' = [pc EXCEPT ![w] = "sleep_short"]
              /\ outcome' = [outcome EXCEPT ![w] = "notmounted"]
              /\ nput' = [nput EXCEPT ![w] = 1]
              /\ UNCHANGED <<bin, LOCK, SRC_LOCKS>>
           \/ \* lines 120-126: full
              /\ Exists(w) /\ IsMount(w) /\ DestFull(w, item)
              /\ bin_queue' = Put(rest, item)
              /\ pc' = [pc EXCEPT ![w] = "stopped"]
              /\ outcome' = [outcome EXCEPT ![w] = "full"]
              /\ nput' = [nput EXCEPT ![w] = 1]
              /\ UNCHANGED <<bin, LOCK, SRC_LOCKS>>
           \/ \* lines 120-121 raise (the file is gone): line 189, next round
              /\ Exists(w) /\ IsMount(w)
              /\ bin_queue' = rest
              /\ outcome' = [outcome EXCEPT ![w] = "exception"]
              /\ nput' = [nput EXCEPT ![w] = 0]
              /\ UNCHANGED <<pc, bin, LOCK, SRC_LOCKS>>
           \/ \* no local path to check, or a mount with room: lines 128-141
              /\ ~Exists(w) \/ (IsMount(w) /\ ~DestFull(w, item))
              /\ bin_queue' = rest
              /\ bin' = [bin EXCEPT ![w] = item]
              /\ outcome' = [outcome EXCEPT ![w] =
                                IF Exists(w) THEN "admitted" ELSE "unchecked"]
              /\ nput' = [nput EXCEPT ![w] = 0]
              /\ AcquireLock(w, item)
    /\ returncode' = [returncode EXCEPT ![w] = NoCode]
    /\ UNCHANGED <<config, listing, finder, health, moved>>

\* LOCK.acquire() returns (line 130)
LockAcquired(w) ==
    /\ pc[w] = "wait_lock"
    /\ LOCK = NoHolder
    /\ LOCK' = w
    /\ AcquireSrc(w, bin[w])
    /\ UNCHANGED <<config, listing, bin_queue, finder, bin, health, outcome, nput, kept>>

\* SRC_LOCKS[bin.parent].acquire() returns (line 134)
SrcAcquired(w) ==
    /\ pc[w] = "wait_src"
    /\ SRC_LOCKS[Parent(bin[w])] = NoHolder
    /\ SRC_LOCKS' = [SRC_LOCKS EXCEPT ![Parent(bin[w])] = w]
    /\ pc' = [pc EXCEPT ![w] = "probe"]
    /\ UNCHANGED <<config, listing, bin_queue, finder, bin, LOCK, health, outcome, nput,
                   kept>>

\* a variant: after a failed probe the worker goes back to the dequeue
ProbeDoneRetries(w) ==
    /\ pc[w] = "probe"
    /\ \/ \* exit 0: start the real rsync (line 151)
          /\ pc' = [pc EXCEPT ![w] = "transfer"]
          /\ UNCHANGED <<bin_queue, bin, LOCK, SRC_LOCKS, outcome, nput>>
       \/ \* exit non-zero: lines 146-148, then the finally clause
          /\ bin_queue' = Put(bin_queue, bin[w])
          /\ LOCK' = ReleasedLock
          /\ SRC_LOCKS' = ReleasedSrc(bin[w])
          /\ pc' = [pc EXCEPT ![w] = "get"]
          /\ bin' = [bin EXCEPT ![w] = NoBin]
          /\ outcome' = [outcome EXCEPT ![w] = "probefail"]
          /\ nput' = [nput EXCEPT ![w] = 1]
       \/ \* an exception: the finally clause, line 189, next round
          /\ LOCK' = ReleasedLock
          /\ SRC_LOCKS' = ReleasedSrc(bin[w])
          /\ pc' = [pc EXCEPT ![w] = "get"]
          /\ bin' = [bin EXCEPT ![w] = NoBin]
          /\ outcome' = [outcome EXCEPT ![w] = "exception"]
          /\ UNCHANGED <<bin_queue, nput>>
    /\ UNCHANGED <<config, listing, finder, health, kept>>

\* the probe rsync ends (lines 141-148), or starting it raises
ProbeDone(w) ==
    /\ pc[w] = "probe"
    /\ \/ \* exit 0: start the real rsync (line 151)
          /\ pc' = [pc EXCEPT ![w] = "transfer"]
          /\ UNCHANGED <<bin_queue, bin, LOCK, SRC_LOCKS, outcome, nput>>
       \/ \* exit non-zero: lines 146-148, then the finally clause
          /\ bin_queue' = Put(bin_queue, bin[w])
          /\ LOCK' = ReleasedLock
          /\ SRC_LOCKS' = ReleasedSrc(bin[w])
          /\ pc' = [pc EXCEPT ![w] = "stopped"]
          /\ bin' = [bin EXCEPT ![w] = NoBin]
          /\ outcome' = [outcome EXCEPT ![w] = "probefail"]
          /\ nput' = [nput EXCEPT ![w] = 1]
       \/ \* an exception: the finally clause, line 189, next round
          /\ LOCK' = ReleasedLock
          /\ SRC_LOCKS' = ReleasedSrc(bin[w])
          /\ pc' = [pc EXCEPT ![w] = "get"]
          /\ bin' = [bin EXCEPT ![w] = NoBin]
          /\ outcome' = [outcome EXCEPT ![w] = "exception"]
          /\ UNCHANGED <<bin_queue, nput>>
    /\ UNCHANGED <<config, listing, finder, health, kept>>

\* a variant: a socket error ends the worker like a file error
AfterTransferSocketStops(class) ==
    CASE class = "success" -> "get"
      [] class = "socket" -> "stopped"
      [] class = "fileio" -> "stopped"
      [] class = "other" -> "sleep_exit"

\* where the worker goes on the branch taken (lines 163-181)
AfterTransfer(class) ==
    CASE class = "success" -> "get"
      [] class = "socket" -> "sleep_long"
      [] class = "fileio" -> "stopped"
      [] class = "other" -> "sleep_exit"

\* a variant: the item is put back on every branch
RequeuesAlways(class) == TRUE

\* the branches that put the item back before any sleep (lines 168 and 173)
RequeuesAtOnce(class) == class \in {"socket", "fileio"}

\* the real rsync ends with rc (lines 151-181), up to the next suspension
TransferDone(w, rc) ==
    /\ pc[w] = "transfer"
    /\ LOCK' = ReleasedLock
    /\ SRC_LOCKS' = ReleasedSrc(bin[w])
    /\ returncode' = [returncode EXCEPT ![w] = rc]
    /\ outcome' = [outcome EXCEPT ![w] = "transferred"]
    /\ LET class == Classify(rc)
       IN  /\ bin_queue' = IF RequeuesAtOnce(class)
                           THEN Put(bin_queue, bin[w])
                           ELSE bin_queue
           /\ nput' = [nput EXCEPT ![w] = IF RequeuesAtOnce(class) THEN 1 ELSE 0]
           /\ bin' = [bin EXCEPT ![w] =
                         IF AfterTransfer(class) = "sleep_exit" THEN bin[w] ELSE NoBin]
           /\ pc' = [pc EXCEPT ![w] = AfterTransfer(class)]
    /\ UNCHANGED <<config, listing, finder, health>>

\* a variant: the except clause puts the item back before the next round
TransferRaisesRequeues(w) ==
    /\ pc[w] = "transfer"
    /\ LOCK' = ReleasedLock
    /\ SRC_LOCKS' = ReleasedSrc(bin[w])
    /\ pc' = [pc EXCEPT ![w] = "get"]
    /\ bin' = [bin EXCEPT ![w] = NoBin]
    /\ outcome' = [outcome EXCEPT ![w] = "exception"]
    /\ bin_queue' = Put(bin_queue, bin[w])
    /\ UNCHANGED <<config, listing, finder, health, nput, kept>>

\* starting or awaiting the real rsync raises: finally, line 189, next round
TransferRaises(w) ==
    /\ pc[w] = "transfer"
    /\ LOCK' = ReleasedLock
    /\ SRC_LOCKS' = ReleasedSrc(bin[w])
    /\ pc' = [pc EXCEPT ![w] = "get"]
    /\ bin' = [bin EXCEPT ![w] = NoBin]
    /\ outcome' = [outcome EXCEPT ![w] = "exception"]
    /\ UNCHANGED <<config, listing, bin_queue, finder, health, nput, kept>>

\* asyncio.sleep(SLEEP_FOR) of line 117 or asyncio.sleep(SLEEP_FOR_LONG) of
\* line 169 is over: back to line 107
Wake(w) ==
    /\ pc[w] \in {"sleep_short", "sleep_long"}
    /\ pc' = [pc EXCEPT ![w] = "get"]
    /\ UNCHANGED <<config, listing, bin_queue, finder, bin, LOCK, SRC_LOCKS, health,
                   outcome, nput, kept>>

\* a variant: the worker's exit ends every other worker with it
WakeExitStopsAll(w) ==
    /\ pc[w] = "sleep_exit"
    /\ bin_queue' = Put(bin_queue, bin[w])
    /\ nput' = [nput EXCEPT ![w] = nput[w] + 1]
    /\ bin' = [bin EXCEPT ![w] = NoBin]
    /\ pc' = [v \in DESTS |-> "stopped"]
    /\ UNCHANGED <<config, listing, finder, LOCK, SRC_LOCKS, health, outcome, kept>>

\* asyncio.sleep(SLEEP_FOR) of line 178 is over: lines 179-181
WakeExit(w) ==
    /\ pc[w] = "sleep_exit"
    /\ bin_queue' = Put(bin_queue, bin[w])
    /\ nput' = [nput EXCEPT ![w] = nput[w] + 1]
    /\ bin' = [bin EXCEPT ![w] = NoBin]
    /\ pc' = [pc EXCEPT ![w] = "stopped"]
    /\ UNCHANGED <<config, listing, finder, LOCK, SRC_LOCKS, health, outcome, kept>>

(***************************************************************************)
(* The environment: a destination is mounted, unmounted, filled, emptied.  *)
(***************************************************************************)
HealthChange(dest, h) ==
    /\ h # health[dest]
    /\ health' = [health EXCEPT ![dest] = h]
    /\ UNCHANGED <<config, listing, bin_queue, finder, pc, bin, LOCK, SRC_LOCKS,
                   outcome, nput, kept>>

\* every step but the end of a real rsync
Others ==
    \/ Scan
    \/ WatchSetup
    \/ \E f \in Files : WatchEvent(f)
    \/ \E w \in DESTS : Get(w)
    \/ \E w \in DESTS : LockAcquired(w)
    \/ \E w \in DESTS : SrcAcquired(w)
    \/ \E w \in DESTS : ProbeDone(w)
    \/ \E w \in DESTS : TransferRaises(w)
    \/ \E w \in DESTS : Wake(w)
    \/ \E w \in DESTS : WakeExit(w)
    \/ \E dest \in LocalDests, h \in Health : HealthChange(dest, h)

\* the program; no record of the moved paths is kept
Next ==
    \/ Others
    \/ \E w \in DESTS, rc \in ReturnCodes :
          TransferDone(w, rc) /\ UNCHANGED moved

Spec == Init /\ [][Next]_vars

\* the program, observed: every path a real rsync moved is recorded
NextMoved ==
    \/ Others
    \/ \E w \in DESTS, rc \in ReturnCodes :
          /\ TransferDone(w, rc)
          /\ moved' = IF Classify(rc) = "success"
                       THEN moved \cup {bin[w]}
                       ELSE moved

SpecMoved == Init /\ [][NextMoved]_vars

(***************************************************************************)
(* The program with one destination that never fails, under fair           *)
(* scheduling: nothing raises, the rsync module answers every probe and    *)
(* takes every file, and the other destination fails in any way it likes.  *)
(***************************************************************************)
\* the destination whose probes and transfers all exit 0; being an rsync
\* module it has no local path to be unmounted or full (lines 111, 120)
Healthy == "192.168.1.10::hdd1"

\* lines 107-141 when neither bin.stat() nor disk_usage raises
FairGet(w) == Get(w) /\ outcome'[w] # "exception"

\* lines 141-151 when the subprocess starts, and the Healthy probe exits 0
FairProbeDone(w) ==
    /\ ProbeDone(w)
    /\ outcome'[w] # "exception"
    /\ w = Healthy => outcome'[w] # "probefail"

\* lines 151-181 with the moved path recorded; a Healthy transfer exits 0
FairTransferDone(w, rc) ==
    /\ w = Healthy => rc = 0
    /\ TransferDone(w, rc)
    /\ moved' = IF Classify(rc) = "success" THEN moved \cup {bin[w]} ELSE moved

\* lines 97-100 for a file written once: a path is reported again only for a
\* new file, written after the earlier file of that name was moved away
FairWatchEvent(f) ==
    /\ finder = "watch"
    /\ f.dir \in Watched
    /\ EndsWithBin(f.name)
    /\ Len(bin_queue) + Held < MaxItems
    /\ \A k \in DOMAIN bin_queue : bin_queue[k] # f
    /\ \A w \in DESTS : bin[w] # f
    /\ bin_queue' = Put(bin_queue, Join(f.dir, f.name))
    /\ moved' = moved \ {f}
    /\ UNCHANGED <<config, listing, finder, pc, bin, LOCK, SRC_LOCKS, health,
                   outcome, nput, returncode>>

NextFair ==
    \/ Scan
    \/ WatchSetup
    \/ \E f \in Files : FairWatchEvent(f)
    \/ \E w \in DESTS : FairGet(w)
    \/ \E w \in DESTS : LockAcquired(w)
    \/ \E w \in DESTS : SrcAcquired(w)
    \/ \E w \in DESTS : FairProbeDone(w)
    \/ \E w \in DESTS, rc \in ReturnCodes : FairTransferDone(w, rc)
    \/ \E w \in DESTS : Wake(w)
    \/ \E w \in DESTS : WakeExit(w)
    \/ \E dest \in LocalDests, h \in Health : HealthChange(dest, h)

\* the event loop runs every coroutine that can run, every sleep and every
\* subprocess ends; the Healthy worker is not overtaken for ever at the queue
\* or at a lock (asyncio wakes waiters in the order they came)
Fairness ==
    /\ WF_vars(Scan)
    /\ WF_vars(WatchSetup)
    /\ \A w \in DESTS :
          /\ WF_vars(FairGet(w))
          /\ WF_vars(LockAcquired(w))
          /\ WF_vars(SrcAcquired(w))
          /\ WF_vars(FairProbeDone(w))
          /\ WF_vars(\E rc \in ReturnCodes : FairTransferDone(w, rc))
          /\ WF_vars(Wake(w))
          /\ WF_vars(WakeExit(w))
    /\ SF_vars(FairGet(Healthy))
    /\ SF_vars(LockAcquired(Healthy))
    /\ SF_vars(SrcAcquired(Healthy))

SpecFair == Init /\ [][NextFair]_vars /\ Fairness

TypeOK ==
    /\ ONE_AT_A_TIME \in BOOLEAN
    /\ ONE_PER_DRIVE \in BOOLEAN
    /\ bin_queue \in Seq(Bins)
    /\ finder \in {"scan", "setup", "watch"}
    /\ listing \subseteq Files
    /\ pc \in [DESTS -> {"get", "sleep_short", "wait_lock", "wait_src", "probe",
                         "transfer", "sleep_long", "sleep_exit", "stopped"}]
    /\ bin \in [DESTS -> Bins \cup {NoBin}]
    /\ LOCK \in DESTS \cup {NoHolder}
    /\ SRC_LOCKS \in [Parents -> DESTS \cup {NoHolder}]
    /\ health \in [LocalDests -> Health]
    /\ returncode \in [DESTS -> ReturnCodes \cup {NoCode}]
    /\ nput \in [DESTS -> 0 .. 2]
    /\ moved \subseteq Bins

(***************************************************************************)
(* Properties.                                                             *)
(***************************************************************************)
\* the worker has a probe or a real rsync running
InInvoker(w) == pc[w] \in {"probe", "transfer"}

\* the items of the queue
Queued == {bin_queue[i] : i \in DOMAIN bin_queue}

\* this step is a dequeue by w that raised nothing: every such branch of
\* lines 107-141 ends at a suspension other than bin_queue.get()
Handles(w) == pc[w] = "get" /\ pc'[w] # "get"

\* the item at the head of the queue goes to its back
HeadRequeued == bin_queue' = Append(Tail(bin_queue), Head(bin_queue))

\* w holds no lock after this step
HoldsNoLock(w) == LOCK' # w /\ \A d \in Parents : SRC_LOCKS'[d] # w

\* C1: with ONE_AT_A_TIME set, at most one worker over all destinations has
\* a Transfer Invoker call (the probe or the real rsync) running.
C1_OneAtATime ==
    ONE_AT_A_TIME => Cardinality({w \in DESTS : InInvoker(w)}) <= 1

\* C1's case: one worker transfers while another waits for the global lock
C1_Witness ==
    /\ ONE_AT_A_TIME
    /\ \E w, v \in DESTS : pc[w] = "transfer" /\ pc[v] = "wait_lock"

\* C2: with ONE_PER_DRIVE set, no two workers have invoker calls running for
\* files of the same parent directory.
C2_OnePerDrive ==
    ONE_PER_DRIVE =>
        \A w, v \in DESTS :
            w # v /\ InInvoker(w) /\ InInvoker(v)
                => Parent(bin[w]) # Parent(bin[v])

\* C2's case: two workers transfer files of different parent directories at
\* the same time
C2_Witness ==
    /\ ONE_PER_DRIVE
    /\ \E w, v \in DESTS :
          /\ pc[w] = "transfer" /\ pc[v] = "transfer"
          /\ Parent(bin[w]) # Parent(bin[v])

\* with ONE_PER_DRIVE set, a worker waits while another transfers a file of
\* the same parent directory
C2_Waiting ==
    /\ ONE_PER_DRIVE
    /\ \E w, v \in DESTS :
          /\ pc[w] = "transfer" /\ pc[v] = "wait_src"
          /\ Parent(bin[w]) = Parent(bin[v])

\* C3: once the handling of a dequeue is over (the worker is back at the
\* dequeue or has stopped), either the real rsync exited 0 and nothing was
\* put back, or the worker put the item back exactly once.
C3_EveryDequeueSettled ==
    \A w \in DESTS :
        pc[w] \in {"get", "stopped"} /\ outcome[w] # "none"
            => \/ returncode[w] = 0 /\ nput[w] = 0
               \/ returncode[w] # 0 /\ nput[w] = 1

\* C4: a path that is in the queue is not being transferred by any worker.
C4_QueuedNotInTransfer ==
    \A w \in DESTS : InInvoker(w) => bin[w] \notin Queued

\* C5: each file is transferred exactly once: no real rsync of a path ends
\* with status 0 after another one of that path did, and no two workers run
\* a real rsync of the same path at the same time.
C5_ExactlyOnce ==
    /\ [][\A w \in DESTS :
            pc[w] = "transfer" /\ returncode'[w] = 0 => bin[w] \notin moved]_vars
    /\ [](\A w, v \in DESTS :
            w # v /\ pc[w] = "transfer" /\ pc[v] = "transfer" => bin[w] # bin[v])

\* C6: the real rsync to a local destination never starts while that
\* destination is a directory that is not a mount point, or is a mount point
\* with less free space
\* than the file's size (stated for the attempts whose health check of lines
\* 112-126 ran and passed).
C6_NoTransferToUnhealthy ==
    [][\A w \in LocalDests :
          pc[w] = "probe" /\ pc'[w] = "transfer" /\ outcome[w] = "admitted"
              => /\ health[w].kind # "unmounted"
                 /\ health[w].kind = "mounted" => health[w].free >= Size(bin[w])]_vars

\* C7: a worker that dequeues a file while its destination is a mount point
\* with less free space than the file's size puts the file back, takes no
\* lock, starts no probe and no transfer, and stops; a stopped worker stays
\* stopped.
C7_FullStops ==
    [][\A w \in LocalDests :
          /\ Handles(w) /\ health[w].kind = "mounted"
               /\ health[w].free < Size(Head(bin_queue))
                => /\ HeadRequeued
                   /\ pc'[w] = "stopped"
                   /\ bin'[w] = NoBin
                   /\ LOCK' = LOCK /\ SRC_LOCKS' = SRC_LOCKS
          /\ pc[w] = "stopped" => pc'[w] = "stopped"]_vars

\* C7's case: a worker stopped on a full destination, the file back in the queue
C7_Witness ==
    \E w \in LocalDests :
        /\ pc[w] = "stopped" /\ outcome[w] = "full" /\ nput[w] = 1
        /\ bin_queue # <<>>

\* C8: when the real rsync exits 11 or 23 the worker puts the item back once
\* and stops; a stopped worker dequeues nothing, puts nothing and takes no
\* lock.
C8_FileIOStops ==
    [][\A w \in DESTS :
          /\ pc[w] = "transfer" /\ returncode'[w] \in {11, 23}
                => /\ bin_queue' = Append(bin_queue, bin[w])
                   /\ nput'[w] = 1
                   /\ pc'[w] = "stopped"
          /\ pc[w] = "stopped"
                => /\ pc'[w] = "stopped"
                   /\ nput'[w] = nput[w] /\ bin'[w] = bin[w]
                   /\ HoldsNoLock(w)]_vars

\* C8's case: a worker stopped by exit status 23
C8_Witness ==
    \E w \in DESTS : pc[w] = "stopped" /\ returncode[w] = 23 /\ nput[w] = 1

\* C9: a worker that dequeues a file while its destination exists and is not
\* a mount point puts the file back and sleeps the short backoff, and the
\* only way out of that sleep is back to the dequeue: it does not stop.
C9_NotMountedRetries ==
    [][\A w \in LocalDests :
          /\ Handles(w) /\ health[w].kind = "unmounted"
                => /\ HeadRequeued
                   /\ pc'[w] = "sleep_short"
                   /\ bin'[w] = NoBin
                   /\ LOCK' = LOCK /\ SRC_LOCKS' = SRC_LOCKS
          /\ pc[w] = "sleep_short" => pc'[w] \in {"sleep_short", "get"}]_vars

\* C9's case: a worker is back at the dequeue after the not-mounted backoff
C9_Witness ==
    \E w \in LocalDests : pc[w] = "get" /\ outcome[w] = "notmounted"

\* C10: when the real rsync exits 0 the worker puts nothing back and goes on
\* to the next dequeue, and it puts nothing back later either.
C10_SuccessConsumes ==
    [][\A w \in DESTS :
          /\ pc[w] = "transfer" /\ returncode'[w] = 0
                => /\ bin_queue' = bin_queue
                   /\ pc'[w] = "get"
                   /\ bin'[w] = NoBin
                   /\ nput'[w] = 0
          /\ returncode[w] = 0 /\ returncode'[w] = 0
                => pc'[w] = "get" /\ nput'[w] = 0]_vars

\* C10's case: a worker is back at the dequeue after exit status 0
C10_Witness ==
    \E w \in DESTS : pc[w] = "get" /\ returncode[w] = 0 /\ outcome[w] = "transferred"

\* the scan's step of the finder coroutine
Scans == finder = "scan" /\ finder' = "setup"

\* the items a step appended to the queue
Appended == SubSeq(bin_queue', Len(bin_queue) + 1, Len(bin_queue'))

\* a file the scan's pattern matches: a .bin file somewhere under a source root
Matches(f) ==
    /\ f.name.ext = ".bin"
    /\ \E i \in DOMAIN SOURCES : RootExists(SOURCES[i]) /\ IsUnder(f, SOURCES[i])

\* C11: the scan puts a matching file of the listing in the queue exactly when
\* its size is at least FILE_SIZE, and it puts nothing else
C11_ScanFiltersBySize ==
    [][Scans =>
         /\ \A f \in listing :
               Matches(f) =>
                 ((\E k \in DOMAIN Appended : Appended[k] = f)
                    <=> Size(f) >= FILE_SIZE)
         /\ \A k \in DOMAIN Appended :
               /\ Appended[k] \in listing
               /\ Matches(Appended[k])
               /\ Size(Appended[k]) >= FILE_SIZE]_vars

\* C11's case: the scan found a file at the bound and a smaller one, queued
\* the first and left the second out
C11_Witness ==
    /\ finder = "setup"
    /\ {FileX, FileY} \subseteq listing
    /\ \E k \in DOMAIN bin_queue : bin_queue[k] = FileX
    /\ \A k \in DOMAIN bin_queue : bin_queue[k] # FileY

\* a worker outside an attempt: waiting to dequeue, sleeping a backoff, stopped
Idle(w) == pc[w] \in {"get", "sleep_short", "sleep_long", "sleep_exit", "stopped"}

\* C12: a worker that waits to dequeue, sleeps a backoff or has stopped holds
\* neither the global lock nor a source-directory lock
C12_IdleHoldsNoLock ==
    \A w \in DESTS :
        Idle(w) => LOCK # w /\ \A d \in Parents : SRC_LOCKS[d] # w

\* C12's case: with both locks in use one worker has stopped after a failed
\* probe and the other sleeps the long backoff after exit status 10
C12_Witness ==
    /\ ONE_AT_A_TIME /\ ONE_PER_DRIVE
    /\ \E w, v \in DESTS :
          /\ pc[w] = "stopped" /\ outcome[w] = "probefail"
          /\ pc[v] = "sleep_long" /\ returncode[v] = 10

\* C13: on an exit status other than 0, 10, 11 and 23 the worker puts the item
\* back by the step that starts the short backoff, so the item is in the queue
\* from the start of the sleep, and the worker stops after the sleep without
\* another put
C13_PutBeforeShortBackoff ==
    [][\A w \in DESTS :
          /\ pc[w] = "transfer" /\ returncode'[w] \notin {NoCode, 0, 10, 11, 23}
               => /\ pc'[w] = "sleep_exit"
                  /\ bin_queue' = Append(bin_queue, bin[w])
          /\ pc[w] = "sleep_exit" /\ pc'[w] = "stopped"
               => bin_queue' = bin_queue]_vars

\* the step by which worker w's round ends in the except clause
Raises(w) ==
    /\ outcome'[w] = "exception"
    /\ outcome[w] # "exception" \/ pc[w] # "get"

\* C14: an exception after the dequeue leaves the worker running at the next
\* dequeue, holding nothing, and puts nothing back: the queue has lost the item
\* if the step dequeued it, and is as it was if the item was already held
C14_ExceptionDropsItem ==
    [][\A w \in DESTS :
          Raises(w) =>
            /\ pc'[w] = "get"
            /\ bin'[w] = NoBin
            /\ nput'[w] = 0
            /\ bin_queue' = IF pc[w] = "get" THEN Tail(bin_queue) ELSE bin_queue]_vars

\* C14's case: a worker is back at the dequeue after an exception and the item
\* is nowhere: the queue is empty and no worker holds an item
C14_Witness ==
    /\ bin_queue = <<>>
    /\ \A v \in DESTS : bin[v] = NoBin
    /\ \E w \in DESTS : pc[w] = "get" /\ outcome[w] = "exception"

\* C15: a probe that exits non-zero puts the item back, releases every lock
\* and stops the worker without starting the real transfer; a stopped worker
\* stays stopped, so it never dequeues again
C15_ProbeFailureStops ==
    [][\A w \in DESTS :
          /\ pc[w] = "probe" /\ outcome'[w] = "probefail"
               => /\ pc'[w] = "stopped"
                  /\ bin_queue' = Append(bin_queue, bin[w])
                  /\ LOCK' # w
                  /\ \A d \in Parents : SRC_LOCKS'[d] # w
                  /\ returncode'[w] = NoCode
          /\ pc[w] = "stopped"
               => pc'[w] = "stopped" /\ bin'[w] = NoBin /\ returncode'[w] = returncode[w]]_vars

\* C15's case: with both locks in use a worker has stopped after a failed
\* probe, its item is in the queue and no real transfer of it was started
C15_Witness ==
    /\ ONE_AT_A_TIME /\ ONE_PER_DRIVE
    /\ \E w \in DESTS :
          /\ pc[w] = "stopped" /\ outcome[w] = "probefail"
          /\ returncode[w] = NoCode
          /\ bin_queue # <<>>

\* C16: on exit status 10 the worker puts the item back by the step that
\* starts the long backoff, and the long backoff is left only for the dequeue:
\* the worker does not stop
C16_SocketErrorRetries ==
    [][\A w \in DESTS :
          /\ pc[w] = "transfer" /\ returncode'[w] = 10
               => /\ pc'[w] = "sleep_long"
                  /\ bin_queue' = Append(bin_queue, bin[w])
                  /\ bin'[w] = NoBin
          /\ pc[w] = "sleep_long"
               => pc'[w] \in {"sleep_long", "get"} /\ returncode'[w] = 10]_vars

\* C16's case: a worker is back at the dequeue after the long backoff that
\* followed exit status 10, and the queue holds an item for it
C16_Witness ==
    \E w \in DESTS : pc[w] = "get" /\ returncode[w] = 10 /\ bin_queue # <<>>

\* a put that no worker made and that is not the scan's: the watcher's
WatcherPuts ==
    /\ Len(bin_queue') = Len(bin_queue) + 1
    /\ finder' = finder
    /\ pc' = pc /\ bin' = bin

\* C17: nothing is in the queue before the scan has run, the watcher puts an
\* item only once it is set up, and it is set up only after the scan: the
\* scan's items are all in the queue before the first item of the watcher
C17_ScanBeforeWatch ==
    /\ [](finder = "scan" => bin_queue = <<>> /\ \A w \in DESTS : bin[w] = NoBin)
    /\ [][/\ WatcherPuts => finder = "watch"
          /\ finder' # finder =>
               <<finder, finder'>> \in {<<"scan", "setup">>, <<"setup", "watch">>}]_vars

\* C17's case: the queue holds the scan's two items, in the order of the
\* roots, and behind them a small file that only the watcher can have put
C17_Witness ==
    /\ finder = "watch"
    /\ bin_queue = <<FileX, FileW, FileY>>

\* the step by which worker w stops, starts a backoff or logs an exception
Fails(w) ==
    \/ pc'[w] # pc[w] /\ pc'[w] \in {"sleep_short", "sleep_long", "sleep_exit", "stopped"}
    \/ Raises(w)

\* what the step leaves of worker v: where it is, what it holds, its locks
Untouched(v) ==
    /\ pc'[v] = pc[v]
    /\ bin'[v] = bin[v]
    /\ outcome'[v] = outcome[v]
    /\ returncode'[v] = returncode[v]
    /\ (LOCK' = v) = (LOCK = v)
    /\ \A d \in Parents : (SRC_LOCKS'[d] = v) = (SRC_LOCKS[d] = v)

\* C18: the step by which a worker stops, backs off or logs an exception
\* changes no other worker and not the producer; and whatever the others have
\* done, a worker at the dequeue can take an item that is in the queue and a
\* worker waiting for a free lock can take it
C18_FailuresAreLocal ==
    /\ [][\A w \in DESTS :
             Fails(w) => finder' = finder /\ \A v \in DESTS \ {w} : Untouched(v)]_vars
    /\ [](\A v \in DESTS :
             /\ pc[v] = "get" /\ bin_queue # <<>> => ENABLED Get(v)
             /\ pc[v] = "wait_lock" /\ LOCK = NoHolder => ENABLED LockAcquired(v)
             /\ pc[v] = "wait_src" /\ SRC_LOCKS[Parent(bin[v])] = NoHolder
                  => ENABLED SrcAcquired(v)
             /\ pc[v] = "probe" => ENABLED ProbeDone(v)
             /\ pc[v] = "transfer" => ENABLED TransferDone(v, 0))

\* C18's case: one worker has stopped on a file error while the other is in
\* its real transfer and the watcher is running
C18_Witness ==
    /\ finder = "watch"
    /\ \E w, v \in DESTS :
          /\ pc[w] = "stopped" /\ returncode[w] \in {11, 23}
          /\ pc[v] = "transfer"

\* worker w waits for a lock
Waits(w) == pc[w] \in {"wait_lock", "wait_src"}

\* C19: with both locks in use no worker ever waits for a source-directory
\* lock, the holder of the global lock is inside its attempt with its source
\* lock, no source lock is held without the global lock, and a worker that
\* waits for the global lock finds it free or held by a worker inside an attempt
C19_NoLockDeadlock ==
    ONE_AT_A_TIME /\ ONE_PER_DRIVE =>
      \A w \in DESTS :
          /\ pc[w] # "wait_src"
          /\ LOCK = w => InInvoker(w) /\ SRC_LOCKS[Parent(bin[w])] = w
          /\ \A d \in Parents : SRC_LOCKS[d] = w => LOCK = w
          /\ Waits(w) =>
               \/ LOCK = NoHolder
               \/ \E v \in DESTS \ {w} : LOCK = v /\ InInvoker(v)

\* C19's case: with both locks in use a worker waits for the global lock
\* while the other transfers a file of the same source directory
C19_Witness ==
    /\ ONE_AT_A_TIME /\ ONE_PER_DRIVE
    /\ \E w, v \in DESTS :
          /\ pc[w] = "wait_lock" /\ pc[v] = "transfer" /\ LOCK = v
          /\ Parent(bin[w]) = Parent(bin[v])

\* C20: with the Healthy destination, fair scheduling and no exception, every
\* file that is in the queue is eventually moved by a real transfer that
\* exits 0
C20_EveryQueuedFileMoved ==
    \A f \in {FileX, FileY, FileW} : (f \in Queued) ~> (f \in moved)

====
